---- MODULE Spec2Model ----
(***************************************************************************)
(* EchoFyy: the /process handler of app.py (image -> OCR -> text           *)
(* normalisation -> gTTS audio) as a state machine over a set of           *)
(* concurrently served requests, with the text normaliser                  *)
(* enhance_text_for_tts as an operator on strings.                         *)
(*                                                                         *)
(* A string is a sequence of runs [c |-> character, n |-> repetitions].    *)
(* Every character is a run of n = 1, except the letter "w", which stands  *)
(* for a long word of n identical letters: the regular expressions of the  *)
(* normaliser treat every letter of such a word alike, and it lets the     *)
(* 10000-character cut of process() be reached with its real value.       *)
(***************************************************************************)
EXTENDS Integers, Sequences, FiniteSets, TLC

\* ------------------------------------------------------------------ bounds
NumReqs == 2
MaxRawLen == 2
MaxTextLen == 3

\* ------------------------------------------------- constants of the program
MAX_TTS_CHARS == 10000
HTTP_OK == 200
HTTP_BAD_REQUEST == 400
HTTP_SERVER_ERROR == 500
UPSCALE_BELOW == 800
UPSCALE_FACTOR == 2

\* ---------------------------------------------------------------- strings
Ch(ch) == [c |-> ch, n |-> 1]

Str(chars) == [i \in 1..Len(chars) |-> Ch(chars[i])]

Spaces(k) == [i \in 1..k |-> Ch(" ")]

\* \s of the re module, on the characters of the model
IsSpace(ch) == ch \in {" ", "\n", "\t"}

\* \d of the re module
IsDigit(ch) == ch \in {"1", "4"}

\* [^\x00-\x7F]
IsNonAscii(ch) == ch \in {"BULLET", "E_ACUTE"}

RECURSIVE TextLen(_)
TextLen(t) == IF t = <<>> THEN 0 ELSE Head(t).n + TextLen(Tail(t))

\* text[:k]
RECURSIVE Slice(_, _)
Slice(t, k) ==
    IF t = <<>> \/ k <= 0 THEN <<>>
    ELSE IF Head(t).n <= k THEN <<Head(t)>> \o Slice(Tail(t), k - Head(t).n)
    ELSE <<[c |-> Head(t).c, n |-> k]>>

\* str.replace(ch, rep) for a one-character pattern
RECURSIVE StrReplace(_, _, _)
StrReplace(t, ch, rep) ==
    IF t = <<>> THEN <<>>
    ELSE (IF Head(t).c = ch THEN rep ELSE <<Head(t)>>) \o StrReplace(Tail(t), ch, rep)

\* re.sub(r'\.(?!\d)', '. ', text)
RECURSIVE SubPeriodNotDigit(_)
SubPeriodNotDigit(t) ==
    IF t = <<>> THEN <<>>
    ELSE IF Head(t).c = "." /\ (Len(t) = 1 \/ ~IsDigit(t[2].c))
         THEN <<Ch("."), Ch(" ")>> \o SubPeriodNotDigit(Tail(t))
         ELSE <<Head(t)>> \o SubPeriodNotDigit(Tail(t))

\* the text after the longest run at its head of characters satisfying the class
RECURSIVE DropNewlines(_)
DropNewlines(t) ==
    IF t # <<>> /\ Head(t).c = "\n" THEN DropNewlines(Tail(t)) ELSE t

RECURSIVE DropSpaces(_)
DropSpaces(t) ==
    IF t # <<>> /\ IsSpace(Head(t).c) THEN DropSpaces(Tail(t)) ELSE t

RECURSIVE DropNonAscii(_)
DropNonAscii(t) ==
    IF t # <<>> /\ IsNonAscii(Head(t).c) THEN DropNonAscii(Tail(t)) ELSE t

\* re.sub(r'\n+', '. ', text)
RECURSIVE SubNewlines(_)
SubNewlines(t) ==
    IF t = <<>> THEN <<>>
    ELSE IF Head(t).c = "\n"
         THEN <<Ch("."), Ch(" ")>> \o SubNewlines(DropNewlines(t))
         ELSE <<Head(t)>> \o SubNewlines(Tail(t))

\* re.sub(r'\.\s*\.', '.', text): leftmost matches, the scan resuming after each
RECURSIVE SubDoublePeriods(_)
SubDoublePeriods(t) ==
    IF t = <<>> THEN <<>>
    ELSE IF Head(t).c = "."
            /\ DropSpaces(Tail(t)) # <<>>
            /\ Head(DropSpaces(Tail(t))).c = "."
         THEN <<Ch(".")>> \o SubDoublePeriods(Tail(DropSpaces(Tail(t))))
         ELSE <<Head(t)>> \o SubDoublePeriods(Tail(t))

\* re.sub(r'[^\x00-\x7F]+', ' ', text)
RECURSIVE SubNonAscii(_)
SubNonAscii(t) ==
    IF t = <<>> THEN <<>>
    ELSE IF IsNonAscii(Head(t).c)
         THEN <<Ch(" ")>> \o SubNonAscii(DropNonAscii(t))
         ELSE <<Head(t)>> \o SubNonAscii(Tail(t))

\* the whitespace runs left as they are
SubSpaces_None(t) == t

\* re.sub(r'\s+', ' ', text)
RECURSIVE SubSpaces(_)
SubSpaces(t) ==
    IF t = <<>> THEN <<>>
    ELSE IF IsSpace(Head(t).c)
         THEN <<Ch(" ")>> \o SubSpaces(DropSpaces(t))
         ELSE <<Head(t)>> \o SubSpaces(Tail(t))

\* text.lstrip() in the place of text.strip()
Strip_LeftOnly(t) == DropSpaces(t)

RECURSIVE RStrip(_)
RStrip(t) ==
    IF t # <<>> /\ IsSpace(t[Len(t)].c) THEN RStrip(SubSeq(t, 1, Len(t) - 1)) ELSE t

\* text.strip()
Strip(t) == RStrip(DropSpaces(t))

NextPoint == Str(<<"N", "e", "x", "t", " ", "p", "o", "i", "n", "t", ":", " ">>)

\* lines 42-48 left out
PunctuationSpacing_None(t) == t

PunctuationSpacing(t) ==
    LET t1 == StrReplace(t, ",", <<Ch(",")>> \o Spaces(3))
        t2 == StrReplace(t1, ".", <<Ch(".")>> \o Spaces(5))
        t3 == StrReplace(t2, ";", <<Ch(";")>> \o Spaces(5))
        t4 == StrReplace(t3, ":", <<Ch(":")>> \o Spaces(2))
        t5 == StrReplace(t4, "?", <<Ch("?")>> \o Spaces(5))
        t6 == StrReplace(t5, "!", <<Ch("!")>> \o Spaces(3))
    IN  SubPeriodNotDigit(t6)

enhance_text_for_tts(text) ==
    LET t1 == PunctuationSpacing(text)
        t2 == SubNewlines(t1)
        t3 == SubDoublePeriods(t2)
        t4 == StrReplace(t3, "BULLET", NextPoint)
        t5 == SubNonAscii(t4)
        t6 == SubSpaces(t5)
    IN  Strip(t6)

\* ---------------------------------------------------------------- requests
Reqs == 1..NumReqs

\* a form field the request does not carry
Absent == "<absent>"

\* request.form.get(key, default)
FormGet(value, default) == IF value = Absent THEN default ELSE value

\* werkzeug's secure_filename on the file names of the model
secure_filename(filename) ==
    CASE filename = "../a.png" -> "a.png"
      [] filename = "a b.png"  -> "a_b.png"
      [] OTHER                 -> filename

\* the requests a client can send: without an image part, or with one;
\* shape is the (height, width) of the image a decodable payload holds
NoImageRequest ==
    [has_image |-> FALSE, filename |-> "", payload |-> "none", shape |-> <<0, 0>>,
     ocr_lang |-> Absent, tts_lang |-> Absent]

ImageRequests(filenames, payloads, shapes, ocr_langs, tts_langs) ==
    [has_image : {TRUE}, filename : filenames, payload : payloads, shape : shapes,
     ocr_lang : ocr_langs, tts_lang : tts_langs]

Requests ==
    {NoImageRequest}
    \cup ImageRequests({"", "a.png", "../a.png"}, {"image", "corrupt", "empty"},
                       {<<600, 800>>}, {Absent, "fra"}, {Absent, "fr"})

ConcRequests ==
    {NoImageRequest}
    \cup ImageRequests({"", "a.png"}, {"image", "corrupt"}, {<<600, 800>>},
                       {Absent}, {Absent})

\* what the OCR engine can return
LongWords == {MAX_TTS_CHARS - 1, MAX_TTS_CHARS + 1}

RawChars == {Ch("a"), Ch("."), Ch(" "), Ch("\n"), Ch("E_ACUTE"), Ch("BULLET")}
            \cup {[c |-> "w", n |-> k] : k \in LongWords}

\* no two long words side by side: every string has one representation
WellFormed(t) == \A i \in 1..(Len(t) - 1) : ~(t[i].c = "w" /\ t[i + 1].c = "w")

RawTexts ==
    {t \in UNION {[1..k -> RawChars] : k \in 0..MaxRawLen} : WellFormed(t)}

ConcTexts == {Str(<<"a">>)}

\* the request of a decodable image, for the specifications of the normaliser
TextRequests ==
    ImageRequests({"a.png"}, {"image"}, {<<600, 800>>}, {Absent}, {Absent})

\* the recognised texts the normaliser is checked on
NormChars == {Ch("a"), Ch("1"), Ch("."), Ch(","), Ch(" "), Ch("\n"),
              Ch("E_ACUTE"), Ch("BULLET")}

NormTexts == UNION {[1..k -> NormChars] : k \in 0..MaxTextLen}

\* the images preprocess_image_cv is checked on: sides around 800 pixels
Sides == {1, UPSCALE_BELOW \div 2 - 1, UPSCALE_BELOW \div 2, UPSCALE_BELOW - 1,
          UPSCALE_BELOW, UPSCALE_BELOW + 1, UPSCALE_BELOW * 2}

ShapeRequests ==
    ImageRequests({"a.png"}, {"image", "corrupt"}, Sides \X Sides, {Absent}, {Absent})

\* ------------------------------------------------------------------- state
VARIABLES
    pc,            \* where each request stands in process()
    req,           \* the request received
    file_id,       \* str(uuid.uuid4()) of the request, NoId before
    uuids,         \* the identifiers uuid4 has returned so far
    storage,       \* the files of UPLOAD_DIR
    preprocessed,  \* pil_img is bound
    pil_img,       \* the (height, width) of the image in pil_img, <<>> before
    text,          \* the variable text
    normalized,    \* <<the value of enhance_text_for_tts(text)>>, <<>> before
    ocr_calls,     \* the calls of pytesseract.image_to_string, in order
    tts_calls,     \* the gTTS syntheses, in order
    remove_calls,  \* the calls of os.remove, in order
    exc,           \* the exception raised in the request, "" when none
    response       \* what the client receives

vars == <<pc, req, file_id, uuids, storage, preprocessed, pil_img, text, normalized,
          ocr_calls, tts_calls, remove_calls, exc, response>>

NoId == 0
UPLOAD_DIR == "tmp_uploads"
DefaultLang == "<default>"

NoResponse == [kind |-> "none", status |-> 0, error |-> "", detail |-> ""]

\* jsonify({"error": error[, "detail": detail]}), status
JsonError(status, error, detail) ==
    [kind |-> "json", status |-> status, error |-> error, detail |-> detail]

\* the audio sent under another MIME type
AudioResponse_WrongType ==
    [kind |-> "audio/wav", status |-> HTTP_OK, error |-> "", detail |-> ""]

\* send_file(mp3_io, mimetype="audio/mpeg", ...)
AudioResponse == [kind |-> "audio/mpeg", status |-> HTTP_OK, error |-> "", detail |-> ""]

\* an exception that leaves process(): Flask answers 500 itself
UnhandledResponse ==
    [kind |-> "unhandled", status |-> HTTP_SERVER_ERROR, error |-> "", detail |-> ""]

\* os.path.join(UPLOAD_DIR, f"{file_id}_{filename}")
SavedPath(id, filename) == <<UPLOAD_DIR, id, filename>>

saved_path(r) == SavedPath(file_id[r], secure_filename(req[r].filename))

FilesAt(path) == {f \in storage : f.path = path}

\* uuid.uuid4(): an identifier no earlier call returned
Uuids == 1..NumReqs

\* a generator that can return an identifier it returned before
uuid4_Repeats(used) == Uuids

uuid4(used) == Uuids \ used

Init ==
    /\ pc = [r \in Reqs |-> "received"]
    /\ req = [r \in Reqs |-> NoImageRequest]
    /\ file_id = [r \in Reqs |-> NoId]
    /\ uuids = {}
    /\ storage = {}
    /\ preprocessed = [r \in Reqs |-> FALSE]
    /\ pil_img = [r \in Reqs |-> <<>>]
    /\ text = [r \in Reqs |-> <<>>]
    /\ normalized = [r \in Reqs |-> <<>>]
    /\ ocr_calls = [r \in Reqs |-> <<>>]
    /\ tts_calls = [r \in Reqs |-> <<>>]
    /\ remove_calls = [r \in Reqs |-> <<>>]
    /\ exc = [r \in Reqs |-> ""]
    /\ response = [r \in Reqs |-> NoResponse]

\* ------------------------------------------------------ preprocess_image_cv
Max(a, b) == IF a >= b THEN a ELSE b

\* dsize taken as (height, width)
cv2_resize_Transposed(dsize) == <<dsize[1], dsize[2]>>

\* cv2.resize(gray, dsize): dsize is (width, height), the array (height, width)
cv2_resize(dsize) == <<dsize[2], dsize[1]>>

\* lines 29-37 on the shape of the image: gray.shape, the resize when
\* max(h, w) < 800; denoising and thresholding keep the shape
preprocess_image_cv(shape) ==
    LET h == shape[1]
        w == shape[2]
    IN  IF Max(h, w) < UPSCALE_BELOW
        THEN cv2_resize(<<w * UPSCALE_FACTOR, h * UPSCALE_FACTOR>>)
        ELSE <<h, w>>

\* --------------------------------------------------- decisions of process()
\* 'image' not in request.files / file.filename == ''
NoImagePartResponse == JsonError(HTTP_BAD_REQUEST, "No image part", "")

NoSelectedFileResponse == JsonError(HTTP_BAD_REQUEST, "No selected file", "")

\* the check of the file name left out
NoSelectedFile_Unchecked(filename) == FALSE

\* file.filename == ''
NoSelectedFile(filename) == filename = ""

\* cv2.imread(image_path) gives an image: the file is there and decodes
\* the check 'if img is None' left out
ImreadOk_Unchecked(files) == TRUE

ImreadOk(files) == \E f \in files : f.payload = "image"

\* except Exception: after the call with lang=ocr_lang, the second call is made
\* the second call made whatever the first did
RetryOcr_Always(first_ok) == TRUE

RetryOcr(first_ok) == ~first_ok

\* not text
\* the check 'if not text' left out
IsEmptyText_Never(t) == FALSE

IsEmptyText(t) == t = <<>>

\* the empty text answered as a processing failure
NoTextResponse_AsServerError ==
    JsonError(HTTP_SERVER_ERROR, "No text detected in image", "")

NoTextResponse == JsonError(HTTP_BAD_REQUEST, "No text detected in image", "")

\* if len(text) > 10000: text = text[:10000]
\* the cut one character late: text[:10001]
Truncate_OffByOne(t) ==
    IF TextLen(t) > MAX_TTS_CHARS THEN Slice(t, MAX_TTS_CHARS + 1) ELSE t

Truncate(t) == IF TextLen(t) > MAX_TTS_CHARS THEN Slice(t, MAX_TTS_CHARS) ELSE t

OcrLang(r) == FormGet(req[r].ocr_lang, "eng")

\* the form field ignored
TtsLang_Ignored(r) == "en"

TtsLang(r) == FormGet(req[r].tts_lang, "en")

\* the except clause: {"error": "Processing failed", "detail": str(exc)}, 500
\* the except clause answering 400
ProcessingFailed_AsBadRequest(detail) ==
    JsonError(HTTP_BAD_REQUEST, "Processing failed", detail)

ProcessingFailed(detail) == JsonError(HTTP_SERVER_ERROR, "Processing failed", detail)

\* the failure of os.remove leaving process() instead of being passed over
AfterRemove_Raises(resp, removed) == IF removed THEN resp ELSE UnhandledResponse

\* try: os.remove(saved_path) / except: pass -- the answer stays what it was
AfterRemove(resp, removed) == resp

\* ----------------------------------------------------------------- actions
\* lines 66-73: the request arrives and is validated
Validate(r, requests) ==
    /\ pc[r] = "received"
    /\ \E q \in requests :
        /\ req' = [req EXCEPT ![r] = q]
        /\ IF ~q.has_image
           THEN /\ response' = [response EXCEPT ![r] = NoImagePartResponse]
                /\ pc' = [pc EXCEPT ![r] = "done"]
           ELSE IF NoSelectedFile(q.filename)
           THEN /\ response' = [response EXCEPT ![r] = NoSelectedFileResponse]
                /\ pc' = [pc EXCEPT ![r] = "done"]
           ELSE /\ response' = response
                /\ pc' = [pc EXCEPT ![r] = "save"]
    /\ UNCHANGED <<file_id, uuids, storage, preprocessed, pil_img, text, normalized,
                   ocr_calls, tts_calls, remove_calls, exc>>

\* lines 75-78, file.save succeeds: the upload is in UPLOAD_DIR under a new name
Save(r) ==
    /\ pc[r] = "save"
    /\ \E id \in uuid4(uuids) :
        LET path == SavedPath(id, secure_filename(req[r].filename)) IN
        /\ file_id' = [file_id EXCEPT ![r] = id]
        /\ uuids' = uuids \cup {id}
        /\ storage' = (storage \ FilesAt(path))
                      \cup {[path |-> path, writer |-> r, payload |-> req[r].payload,
                             shape |-> req[r].shape]}
    /\ pc' = [pc EXCEPT ![r] = "preprocess"]
    /\ UNCHANGED <<req, preprocessed, pil_img, text, normalized, ocr_calls, tts_calls,
                   remove_calls, exc, response>>

\* lines 75-78, file.save raises (before the try statement): the exception
\* leaves process(), with the file not created or left partly written
SaveFails(r) ==
    /\ pc[r] = "save"
    /\ \E id \in uuid4(uuids) :
        LET path == SavedPath(id, secure_filename(req[r].filename)) IN
        /\ file_id' = [file_id EXCEPT ![r] = id]
        /\ uuids' = uuids \cup {id}
        /\ \/ storage' = storage
           \/ storage' = (storage \ FilesAt(path))
                         \cup {[path |-> path, writer |-> r, payload |-> "partial",
                               shape |-> <<0, 0>>]}
    /\ exc' = [exc EXCEPT ![r] = "save failed"]
    /\ response' = [response EXCEPT ![r] = UnhandledResponse]
    /\ pc' = [pc EXCEPT ![r] = "done"]
    /\ UNCHANGED <<req, preprocessed, pil_img, text, normalized, ocr_calls, tts_calls,
                   remove_calls>>

\* line 81, lines 23-37: preprocess_image_cv(saved_path)
Preprocess(r) ==
    /\ pc[r] = "preprocess"
    /\ IF ImreadOk(FilesAt(saved_path(r)))
       THEN /\ preprocessed' = [preprocessed EXCEPT ![r] = TRUE]
            /\ \E f \in FilesAt(saved_path(r)) :
                  pil_img' = [pil_img EXCEPT ![r] = preprocess_image_cv(f.shape)]
            /\ pc' = [pc EXCEPT ![r] = "ocr"]
            /\ exc' = exc
       ELSE /\ exc' = [exc EXCEPT ![r] = "Could not read image"]
            /\ pc' = [pc EXCEPT ![r] = "except"]
            /\ preprocessed' = preprocessed
            /\ pil_img' = pil_img
    /\ UNCHANGED <<req, file_id, uuids, storage, text, normalized, ocr_calls,
                   tts_calls, remove_calls, response>>

\* line 84: pytesseract.image_to_string(pil_img, lang=ocr_lang)
Recognize(r, texts) ==
    /\ pc[r] = "ocr"
    /\ \E ok \in BOOLEAN :
        /\ \E t \in IF ok THEN texts ELSE {<<>>} :
            /\ ocr_calls' = [ocr_calls EXCEPT
                  ![r] = Append(@, [lang |-> OcrLang(r), ok |-> ok, result |-> t])]
            /\ text' = IF ok THEN [text EXCEPT ![r] = t] ELSE text
        /\ IF RetryOcr(ok)
           THEN pc' = [pc EXCEPT ![r] = "ocr_default"]
           ELSE pc' = [pc EXCEPT ![r] = "normalize"]
    /\ UNCHANGED <<req, file_id, uuids, storage, preprocessed, pil_img, normalized,
                   tts_calls, remove_calls, exc, response>>

\* line 86: pytesseract.image_to_string(pil_img)
RecognizeDefault(r, texts) ==
    /\ pc[r] = "ocr_default"
    /\ \E ok \in BOOLEAN :
        /\ \E t \in IF ok THEN texts ELSE {<<>>} :
            /\ ocr_calls' = [ocr_calls EXCEPT
                  ![r] = Append(@, [lang |-> DefaultLang, ok |-> ok, result |-> t])]
            /\ text' = IF ok THEN [text EXCEPT ![r] = t] ELSE text
        /\ IF ok
           THEN /\ pc' = [pc EXCEPT ![r] = "normalize"]
                /\ exc' = exc
           ELSE /\ pc' = [pc EXCEPT ![r] = "except"]
                /\ exc' = [exc EXCEPT ![r] = "recognition failed"]
    /\ UNCHANGED <<req, file_id, uuids, storage, preprocessed, pil_img, normalized,
                   tts_calls, remove_calls, response>>

\* lines 88-93: normalise, answer 400 on empty text, cut to 10000 characters
Normalize(r) ==
    /\ pc[r] = "normalize"
    /\ LET t == enhance_text_for_tts(text[r]) IN
        /\ normalized' = [normalized EXCEPT ![r] = <<t>>]
        /\ IF IsEmptyText(t)
           THEN /\ text' = [text EXCEPT ![r] = t]
                /\ response' = [response EXCEPT ![r] = NoTextResponse]
                /\ pc' = [pc EXCEPT ![r] = "finally"]
           ELSE /\ text' = [text EXCEPT ![r] = Truncate(t)]
                /\ response' = response
                /\ pc' = [pc EXCEPT ![r] = "synthesize"]
    /\ UNCHANGED <<req, file_id, uuids, storage, preprocessed, pil_img, ocr_calls,
                   tts_calls, remove_calls, exc>>

\* lines 95-98: gTTS(text=text, lang=tts_lang, slow=False), write_to_fp(mp3_io)
Synthesize(r) ==
    /\ pc[r] = "synthesize"
    /\ \E ok \in BOOLEAN :
        /\ tts_calls' = [tts_calls EXCEPT
                           ![r] = Append(@, [text |-> text[r], lang |-> TtsLang(r),
                                             ok |-> ok])]
        /\ IF ok
           THEN /\ pc' = [pc EXCEPT ![r] = "respond"]
                /\ exc' = exc
           ELSE /\ pc' = [pc EXCEPT ![r] = "except"]
                /\ exc' = [exc EXCEPT ![r] = "synthesis failed"]
    /\ UNCHANGED <<req, file_id, uuids, storage, preprocessed, pil_img, text, normalized,
                   ocr_calls, remove_calls, response>>

\* line 100: return send_file(mp3_io, mimetype="audio/mpeg", ...)
Respond(r) ==
    /\ pc[r] = "respond"
    /\ response' = [response EXCEPT ![r] = AudioResponse]
    /\ pc' = [pc EXCEPT ![r] = "finally"]
    /\ UNCHANGED <<req, file_id, uuids, storage, preprocessed, pil_img, text, normalized,
                   ocr_calls, tts_calls, remove_calls, exc>>

\* lines 101-103: except Exception as exc
HandleException(r) ==
    /\ pc[r] = "except"
    /\ response' = [response EXCEPT ![r] = ProcessingFailed(exc[r])]
    /\ pc' = [pc EXCEPT ![r] = "finally"]
    /\ UNCHANGED <<req, file_id, uuids, storage, preprocessed, pil_img, text, normalized,
                   ocr_calls, tts_calls, remove_calls, exc>>

\* lines 104-108: os.remove(saved_path), whose failure is swallowed
Cleanup(r) ==
    /\ pc[r] = "finally"
    /\ \E ok \in {b \in BOOLEAN : b => FilesAt(saved_path(r)) # {}} :
        /\ remove_calls' = [remove_calls EXCEPT
                              ![r] = Append(@, [path |-> saved_path(r), ok |-> ok])]
        /\ storage' = IF ok THEN storage \ FilesAt(saved_path(r)) ELSE storage
        /\ response' = [response EXCEPT ![r] = AfterRemove(@, ok)]
    /\ pc' = [pc EXCEPT ![r] = "done"]
    /\ UNCHANGED <<req, file_id, uuids, preprocessed, pil_img, text, normalized,
                   ocr_calls, tts_calls, exc>>

Step(r, requests, texts) ==
    \/ Validate(r, requests)
    \/ Save(r)
    \/ SaveFails(r)
    \/ Preprocess(r)
    \/ Recognize(r, texts)
    \/ RecognizeDefault(r, texts)
    \/ Normalize(r)
    \/ Synthesize(r)
    \/ Respond(r)
    \/ HandleException(r)
    \/ Cleanup(r)

\* one request, every kind of request and of recognised text
Next == Step(1, Requests, RawTexts)

Spec == Init /\ [][Next]_vars

\* NumReqs requests served concurrently, their steps interleaved
NextConc == \E r \in Reqs : Step(r, ConcRequests, ConcTexts)

SpecConc == Init /\ [][NextConc]_vars

\* one request with a decodable image, every recognised text of NormTexts
NextText == Step(1, TextRequests, NormTexts)

SpecText == Init /\ [][NextText]_vars

\* one request, an image of every shape of Sides \X Sides
NextImage == Step(1, ShapeRequests, ConcTexts)

SpecImage == Init /\ [][NextImage]_vars

\* ------------------------------------------------------------------ claims
Done(r) == pc[r] = "done"

Last(calls) == calls[Len(calls)]

NoEngineCalls(r) == ocr_calls[r] = <<>> /\ tts_calls[r] = <<>>

\* the file the request wrote is in UPLOAD_DIR
TempFileExists(r) == file_id[r] # NoId /\ FilesAt(saved_path(r)) # {}

\* p is the string t or the start of it
RECURSIVE IsPrefixOf(_, _)
IsPrefixOf(p, t) ==
    \/ p = <<>>
    \/ /\ t # <<>>
       /\ Head(p).c = Head(t).c
       /\ \/ Head(p).n = Head(t).n /\ IsPrefixOf(Tail(p), Tail(t))
          \/ Head(p).n < Head(t).n /\ Tail(p) = <<>>

\* C1: once a request has finished, whatever its outcome, the temporary file
\* it wrote to UPLOAD_DIR is no longer there.
C1_TempFileGone == \A r \in Reqs : Done(r) => ~TempFileExists(r)

\* C2: gTTS is never given an empty text; a request whose normalised text is
\* empty makes no synthesis call and ends with 400 "No text detected in image".
C2_NoSynthesisOfEmptyText ==
    \A r \in Reqs :
        /\ \A i \in DOMAIN tts_calls[r] : tts_calls[r][i].text # <<>>
        /\ normalized[r] = << <<>> >> =>
              /\ tts_calls[r] = <<>>
              /\ pc[r] \in {"finally", "done"}
              /\ response[r].status = HTTP_BAD_REQUEST
              /\ response[r].error = "No text detected in image"

C2_Witness ==
    \E r \in Reqs :
        /\ Done(r)
        /\ normalized[r] = << <<>> >>
        /\ Last(ocr_calls[r]).ok
        /\ response[r].error = "No text detected in image"

\* C3: the OCR engine is called first with the caller's ocr_lang; it is called
\* a second time, once and without a language, exactly when the first call
\* failed; the request fails on recognition only when both calls failed, and
\* there are never more than two calls.
C3_OcrFallbackOnce ==
    \A r \in Reqs :
        LET calls == ocr_calls[r]
            asked == IF req[r].ocr_lang = Absent THEN "eng" ELSE req[r].ocr_lang
        IN  /\ Len(calls) <= 2
            /\ Len(calls) >= 1 => calls[1].lang = asked
            /\ Len(calls) = 2 => ~calls[1].ok /\ calls[2].lang = DefaultLang
            /\ (Len(calls) = 1 /\ ~calls[1].ok) => pc[r] = "ocr_default"
            /\ exc[r] = "recognition failed" =>
                  Len(calls) = 2 /\ ~calls[1].ok /\ ~calls[2].ok
            /\ (Done(r) /\ Len(calls) = 2 /\ ~calls[2].ok) =>
                  response[r] = ProcessingFailed("recognition failed")
            /\ (Done(r) /\ calls # <<>> /\ Last(calls).ok) =>
                  response[r].detail # "recognition failed"

C3_Witness ==
    \E r \in Reqs :
        /\ Done(r)
        /\ req[r].ocr_lang = "fra"
        /\ Len(ocr_calls[r]) = 2
        /\ ocr_calls[r][2].ok
        /\ response[r] = AudioResponse

\* C4 as stated: an empty or corrupt image payload is answered 400 with
\* "No image part" or "No selected file", without any OCR or TTS call.
C4_Original ==
    \A r \in Reqs :
        (Done(r) /\ req[r].payload \in {"empty", "corrupt"}) =>
            /\ response[r].status = HTTP_BAD_REQUEST
            /\ response[r].error \in {"No image part", "No selected file"}
            /\ NoEngineCalls(r)

\* C4 as amended: a request without an image part is answered 400 "No image
\* part" and one with an empty file name 400 "No selected file"; an empty or
\* corrupt payload under a file name is answered 500, "Processing failed"
\* with detail "Could not read image" when process() builds the answer; in
\* all three cases no OCR or TTS call is made.
C4_UndecodablePayload ==
    \A r \in Reqs :
        Done(r) =>
            /\ ~req[r].has_image =>
                  response[r] = NoImagePartResponse /\ NoEngineCalls(r)
            /\ (req[r].has_image /\ req[r].filename = "") =>
                  response[r] = NoSelectedFileResponse /\ NoEngineCalls(r)
            /\ (req[r].has_image /\ req[r].filename # ""
                  /\ req[r].payload \in {"empty", "corrupt"}) =>
                  /\ response[r].status = HTTP_SERVER_ERROR
                  /\ response[r].kind = "json" =>
                        /\ response[r].error = "Processing failed"
                        /\ response[r].detail = "Could not read image"
                  /\ NoEngineCalls(r)

C4_Witness ==
    \E r \in Reqs :
        /\ Done(r)
        /\ req[r].payload = "corrupt"
        /\ response[r].status = HTTP_SERVER_ERROR
        /\ response[r].detail = "Could not read image"
        /\ remove_calls[r] # <<>>

\* C5: no failure of a step leaves process() as an unhandled error: every
\* finished request has the audio response or a structured error response.
C5_NoUnhandledError ==
    \A r \in Reqs : Done(r) => response[r].kind \in {"audio/mpeg", "json"}

\* C6: a failed request is answered 400 or 500 and nothing else: 400 for a
\* missing image part, an empty file name and no text detected, 500 for a
\* failure of decoding, recognition or synthesis.
C6_StatusByCause ==
    \A r \in Reqs :
        Done(r) =>
            /\ response[r].kind # "audio/mpeg" =>
                  response[r].status \in {HTTP_BAD_REQUEST, HTTP_SERVER_ERROR}
            /\ (~req[r].has_image \/ req[r].filename = ""
                  \/ normalized[r] = << <<>> >>) =>
                  response[r].status = HTTP_BAD_REQUEST
            /\ (\/ (file_id[r] # NoId /\ ~preprocessed[r])
                \/ (ocr_calls[r] # <<>> /\ ~Last(ocr_calls[r]).ok)
                \/ (tts_calls[r] # <<>> /\ ~Last(tts_calls[r]).ok)) =>
                  response[r].status = HTTP_SERVER_ERROR
            /\ response[r].status = HTTP_BAD_REQUEST =>
                  /\ exc[r] = ""
                  /\ response[r].error \in {"No image part", "No selected file",
                                            "No text detected in image"}

C6_Witness ==
    \E r \in Reqs :
        /\ Done(r)
        /\ normalized[r] = << <<>> >>
        /\ response[r].status = HTTP_BAD_REQUEST
        /\ Len(ocr_calls[r]) = 2

\* C7: the text given to gTTS has at most 10000 characters and is a prefix of
\* the normalised text, all of it when that has 10000 characters or fewer; a
\* longer text is cut and goes on to the synthesis.
C7_TruncatedText ==
    \A r \in Reqs :
        /\ \A i \in DOMAIN tts_calls[r] :
            /\ TextLen(tts_calls[r][i].text) <= MAX_TTS_CHARS
            /\ normalized[r] # <<>>
            /\ IsPrefixOf(tts_calls[r][i].text, normalized[r][1])
            /\ TextLen(normalized[r][1]) <= MAX_TTS_CHARS =>
                  tts_calls[r][i].text = normalized[r][1]
            /\ TextLen(normalized[r][1]) > MAX_TTS_CHARS =>
                  TextLen(tts_calls[r][i].text) = MAX_TTS_CHARS
        /\ (normalized[r] # <<>> /\ normalized[r][1] # <<>>
              /\ pc[r] \in {"respond", "except", "finally", "done"}) =>
              tts_calls[r] # <<>>

C7_Witness ==
    \E r \in Reqs :
        /\ Done(r)
        /\ response[r] = AudioResponse
        /\ TextLen(normalized[r][1]) > MAX_TTS_CHARS
        /\ TextLen(tts_calls[r][1].text) = MAX_TTS_CHARS
        /\ Len(tts_calls[r][1].text) > 1

\* the request has failed: an exception is raised or an error is the answer
Failed(r) == exc[r] # "" \/ response[r].kind \in {"json", "unhandled"}

C8_Order ==
    \A r \in Reqs :
        /\ ocr_calls[r] # <<>> =>
              preprocessed[r] /\ req[r].payload = "image"
        /\ tts_calls[r] # <<>> =>
              /\ ocr_calls[r] # <<>> /\ Last(ocr_calls[r]).ok
              /\ normalized[r] # <<>> /\ normalized[r][1] # <<>>
        /\ response[r].kind = "audio/mpeg" =>
              tts_calls[r] # <<>> /\ Last(tts_calls[r]).ok

C8_NoCallAfterFailure ==
    \A r \in Reqs :
        Failed(r) =>
            /\ ocr_calls'[r] = ocr_calls[r]
            /\ tts_calls'[r] = tts_calls[r]
            /\ preprocessed'[r] = preprocessed[r]
            /\ normalized'[r] = normalized[r]
            /\ Failed(r)'
            /\ pc'[r] \in {"except", "finally", "done"}

\* C8: the stages come in the order Received, Preprocessed, Recognized,
\* Normalized, Synthesized, Responded: OCR only after a successful
\* preprocessing, synthesis only after a successful recognition and a
\* non-empty normalised text, the audio response only after a successful
\* synthesis, and after a failure no further OCR or TTS call.
C8_StageOrder == []C8_Order /\ [][C8_NoCallAfterFailure]_vars

C8_Witness ==
    \E r \in Reqs :
        /\ Done(r)
        /\ Len(ocr_calls[r]) = 2
        /\ tts_calls[r] # <<>>
        /\ ~Last(tts_calls[r]).ok
        /\ response[r].status = HTTP_SERVER_ERROR
        /\ remove_calls[r] # <<>>

\* C9: gTTS is invoked at most once per request, with the caller's tts_lang,
\* and when it fails the request ends with 500 without another attempt.
C9_NoSynthesisFallback ==
    \A r \in Reqs :
        /\ Len(tts_calls[r]) <= 1
        /\ \A i \in DOMAIN tts_calls[r] :
              tts_calls[r][i].lang =
                  IF req[r].tts_lang = Absent THEN "en" ELSE req[r].tts_lang
        /\ (tts_calls[r] # <<>> /\ ~tts_calls[r][1].ok) =>
              /\ pc[r] \in {"except", "finally", "done"}
              /\ Done(r) => response[r] = ProcessingFailed("synthesis failed")

C9_Witness ==
    \E r \in Reqs :
        /\ Done(r)
        /\ req[r].tts_lang = "fr"
        /\ Len(tts_calls[r]) = 1
        /\ ~tts_calls[r][1].ok
        /\ response[r] = ProcessingFailed("synthesis failed")

\* the request has its file in UPLOAD_DIR and has not yet run its cleanup
InFlight(r) ==
    pc[r] \in {"preprocess", "ocr", "ocr_default", "normalize", "synthesize",
               "respond", "except", "finally"}

\* C10: with requests interleaved in any way, two requests in flight never
\* have the same file path, even for the same file name; the file of a
\* request in flight is in UPLOAD_DIR as that request wrote it; and a request
\* removes its own path only.
C10_IsolatedTempFiles ==
    /\ \A r1, r2 \in Reqs :
          (r1 # r2 /\ InFlight(r1) /\ InFlight(r2)) => saved_path(r1) # saved_path(r2)
    /\ \A r \in Reqs :
          InFlight(r) =>
              FilesAt(saved_path(r)) =
                  {[path |-> saved_path(r), writer |-> r, payload |-> req[r].payload,
                    shape |-> req[r].shape]}
    /\ \A r \in Reqs : \A i \in DOMAIN remove_calls[r] :
          \A o \in Reqs \ {r} :
              InFlight(o) => remove_calls[r][i].path # saved_path(o)

C10_Witness ==
    \E r1, r2 \in Reqs :
        /\ r1 # r2
        /\ Done(r1)
        /\ remove_calls[r1] # <<>> /\ remove_calls[r1][1].ok
        /\ InFlight(r2)
        /\ preprocessed[r2]
        /\ req[r1].filename = req[r2].filename
        /\ file_id[r1] # file_id[r2]

\* the text the OCR engine returned to the request
Raw(r) == Last(ocr_calls[r]).result

\* the value of enhance_text_for_tts(Raw(r)) is known
Enhanced(r) == normalized[r] # <<>>

\* the character a immediately followed by the character b, somewhere in t
HasPair(t, a, b) == \E i \in 1..(Len(t) - 1) : t[i].c = a /\ t[i + 1].c = b

\* C11: when the image decodes, a recognition attempt succeeds, the
\* normalised text is not empty and the synthesis succeeds, the request ends
\* with the audio under the MIME type audio/mpeg, and not with an error.
C11_AudioOnSuccess ==
    \A r \in Reqs :
        (/\ preprocessed[r]
         /\ ocr_calls[r] # <<>> /\ Last(ocr_calls[r]).ok
         /\ Enhanced(r) /\ normalized[r][1] # <<>>
         /\ tts_calls[r] # <<>> /\ Last(tts_calls[r]).ok) =>
            /\ pc[r] \in {"respond", "finally", "done"}
            /\ exc[r] = ""
            /\ pc[r] \in {"finally", "done"} =>
                  /\ response[r].kind = "audio/mpeg"
                  /\ response[r].status = HTTP_OK
                  /\ response[r].error = ""

C11_Witness ==
    \E r \in Reqs :
        /\ Done(r)
        /\ Len(ocr_calls[r]) = 2 /\ ocr_calls[r][2].ok
        /\ tts_calls[r] # <<>> /\ Last(tts_calls[r]).ok
        /\ response[r].kind = "audio/mpeg"
        /\ ~remove_calls[r][1].ok

\* C12: a period immediately followed by a digit in the recognised text is
\* still immediately followed by that digit in the normalised text.
C12_DecimalsKept ==
    \A r \in Reqs :
        Enhanced(r) =>
            \A d \in {"1", "4"} :
                HasPair(Raw(r), ".", d) => HasPair(normalized[r][1], ".", d)

\* C13: the normalised text never holds two periods side by side.
C13_NoDoublePeriod ==
    \A r \in Reqs : Enhanced(r) => ~HasPair(normalized[r][1], ".", ".")

C13_Witness ==
    \E r \in Reqs :
        /\ Enhanced(r)
        /\ Raw(r) = Str(<<".", ".", ".">>)
        /\ normalized[r][1] = Str(<<".", " ", ".">>)

\* C14: the normalised text holds ASCII characters only, no newline, no two
\* whitespace characters side by side, and no whitespace at its ends.
C14_CleanOutput ==
    \A r \in Reqs :
        Enhanced(r) =>
            LET out == normalized[r][1] IN
            /\ \A i \in 1..Len(out) :
                /\ ~IsNonAscii(out[i].c)
                /\ out[i].c # "\n"
                /\ i < Len(out) => ~(IsSpace(out[i].c) /\ IsSpace(out[i + 1].c))
            /\ out # <<>> => ~IsSpace(out[1].c) /\ ~IsSpace(out[Len(out)].c)

C14_Witness ==
    \E r \in Reqs :
        /\ Enhanced(r)
        /\ Raw(r) = Str(<<" ", "E_ACUTE", "\n">>)
        /\ normalized[r][1] = Str(<<".">>)

\* C15: the preprocessed image of a decodable image of shape (h, w) has the
\* shape (2h, 2w) when both sides are below 800 and (h, w) otherwise.
C15_UpscaledShape ==
    \A r \in Reqs :
        pil_img[r] # <<>> =>
            LET h == req[r].shape[1]
                w == req[r].shape[2]
            IN  pil_img[r] = IF h < 800 /\ w < 800 THEN <<2 * h, 2 * w>> ELSE <<h, w>>

C15_Witness ==
    \E r \in Reqs :
        /\ Done(r)
        /\ req[r].shape = <<399, 799>>
        /\ pil_img[r] = <<798, 1598>>

C16_ResultKept ==
    \A r \in Reqs :
        (pc[r] = "finally" /\ pc'[r] # "finally") =>
            /\ pc'[r] = "done"
            /\ response'[r] = response[r]
            /\ exc'[r] = exc[r]
            /\ Len(remove_calls'[r]) = 1

\* C16: the deletion of the temporary file, failed or not, leaves the
\* answer of the request as it was and raises nothing.
C16_CleanupKeepsResult == [][C16_ResultKept]_vars

C16_Witness ==
    \E r \in Reqs :
        /\ Done(r)
        /\ remove_calls[r] # <<>> /\ ~remove_calls[r][1].ok
        /\ TempFileExists(r)
        /\ response[r] = ProcessingFailed("synthesis failed")

Rejected(r) == Done(r) /\ (~req[r].has_image \/ req[r].filename = "")

C17_NothingDone ==
    \A r \in Reqs :
        Rejected(r) =>
            /\ file_id[r] = NoId
            /\ \A f \in storage : f.writer # r
            /\ ~preprocessed[r] /\ pil_img[r] = <<>>
            /\ NoEngineCalls(r)
            /\ remove_calls[r] = <<>>

C17_StorageKept ==
    \A r \in Reqs :
        (pc[r] = "received" /\ pc'[r] = "done") =>
            storage' = storage /\ uuids' = uuids

\* C17: a request rejected at validation (no image part, or an empty file
\* name) leaves UPLOAD_DIR as it was: it creates no file and makes no
\* preprocessing, OCR or TTS call.
C17_RejectedLeavesStorage == []C17_NothingDone /\ [][C17_StorageKept]_vars

C17_Witness ==
    \E r1, r2 \in Reqs :
        /\ Rejected(r1)
        /\ req[r1].has_image
        /\ response[r1] = NoSelectedFileResponse
        /\ InFlight(r2)
        /\ storage # {}

\* C18 as stated: normalising a normalised text changes nothing.
C18_Idempotent ==
    \A r \in Reqs :
        Enhanced(r) => enhance_text_for_tts(normalized[r][1]) = normalized[r][1]

\* two periods with only whitespace between them, somewhere in t
RECURSIVE HasSpacedPeriods(_)
HasSpacedPeriods(t) ==
    /\ t # <<>>
    /\ \/ /\ Head(t).c = "."
          /\ DropSpaces(Tail(t)) # <<>>
          /\ Head(DropSpaces(Tail(t))).c = "."
       \/ HasSpacedPeriods(Tail(t))

\* C18 as amended: normalising a normalised text changes nothing when that
\* text holds no two periods separated only by whitespace.
C18_IdempotentApartFromPeriods ==
    \A r \in Reqs :
        (Enhanced(r) /\ ~HasSpacedPeriods(normalized[r][1])) =>
            enhance_text_for_tts(normalized[r][1]) = normalized[r][1]

C18_Witness ==
    \E r \in Reqs :
        /\ Enhanced(r)
        /\ Raw(r) = Str(<<"a", ".", "1">>)
        /\ normalized[r][1] = Str(<<"a", ".", " ", "1">>)
        /\ enhance_text_for_tts(normalized[r][1]) = normalized[r][1]
====
